---- MODULE Spec2Model ----
(***************************************************************************)
(* Virtual try-on pipeline: the Resilient Invoker (fetchWithRetry), the    *)
(* Generation Client (estimateSizeFromImage, performVirtualTryOn) and the  *)
(* Try-On Orchestrator (handleTryOn, reset and the UI that triggers them). *)
(* The repository holds two variants of the service and of the App:        *)
(*   "gated": App.tsx with unnamed/part_001 (credential-gated, PRO)        *)
(*   "free" : unnamed/part_000 with unnamed/part_002                       *)
(***************************************************************************)
EXTENDS Integers, Sequences, FiniteSets, TLC

VARIABLES
    variant,      \* which of the two variants of the program runs
    state,        \* App: the TryOnState record of useState
    hasKey,       \* App (gated): "null", "true" or "false"
    loadingStep,  \* App: the current-stage label
    step,         \* App: 1, 2 or 3
    attempts,     \* the handleTryOn invocations in flight, each with its position
    finished,     \* the handleTryOn invocation that ended in the last step, if any
    uploads,      \* files whose fileToBase64 read is pending
    keyCheck,     \* gated: the initial hasSelectedApiKey() is "pending" or "done"
    keyDialog,    \* gated: an openSelectKey() dialog is open
    apiKey,       \* process.env.API_KEY, the process-wide credential
    noops,        \* number of handleTryOn invocations that returned at the entry guard
    probe         \* input and output of a pure function under test

vars == <<variant, state, hasKey, loadingStep, step, attempts, finished, uploads,
          keyCheck, keyDialog, apiKey, noops, probe>>

----------------------------------------------------------------------------
(* Bounds of the model *)

MaxAttempts == 1
MaxUploads == 1
MaxNoops == 1
MaxTextLen == 3
MaxDim == 6
MaxBound == 4
MaxParts == 3

----------------------------------------------------------------------------
(* Values *)

Null == "null"
Variants == {"gated", "free"}
Gated == variant = "gated"

\* Files the user can pick; "unreadable" makes the FileReader fail, "imgBad" is
\* read but does not decode as an image.
Images == {"imgA", "imgBad"}
Files == Images \cup {"unreadable"}
Decodable(img) == img # "imgBad"

\* The catalog: one product with a remote image locator, one with a data: locator.
Products == {"setUrl", "setData"}
\* As StartsWithData, with every locator taken for a remote one.
StartsWithDataNever(p) == FALSE

\* url.startsWith('data:')
StartsWithData(p) == p = "setData"

Keys == {"k1", "k2"}

\* Error values: message and status (0 stands for no status field).
Err(m, s) == [msg |-> m, status |-> s]
NoErr == Err("<none>", 0)
KeyNotFound == Err("KEY_NOT_FOUND", 0)
E429Msg == Err("got status: 429 Too Many Requests", 0)
E429Status == Err("Resource has been exhausted", 429)
EQuota == Err("You exceeded your current quota", 0)
ENotFound == Err("Requested entity was not found.", 404)
ENoMsg == Err("", 0)
EDecode == Err("Bild konnte nicht verarbeitet werden.", 0)
EProductImage == Err("Produktbild Fehler", 0)
ESafety(v) ==
    IF v = "gated"
    THEN Err("Das Bild wurde aus Sicherheitsgruenden blockiert. Bitte trage auf deinem Foto neutrale Kleidung.", 0)
    ELSE Err("Bild blockiert. Bitte waehle ein Foto mit neutraler Kleidung.", 0)
ENoImage(v) ==
    IF v = "gated"
    THEN Err("KI konnte kein Bild generieren. Bitte versuche es mit einem deutlicheren Foto.", 0)
    ELSE Err("KI-Fehler. Bitte versuche es mit einem Ganzkoerperfoto.", 0)

\* What generateContent can throw: one error per backend response.
BackendErrors == {E429Msg, E429Status, EQuota, ENotFound, ENoMsg}

\* String.includes on the error messages above.
Has429(m) == m = E429Msg.msg
HasQuota(m) == m = EQuota.msg
HasNotFound(m) == m = ENotFound.msg

----------------------------------------------------------------------------
(* Resilient Invoker: fetchWithRetry *)

Retries == 2
BaseDelay == 2000

\* A run of fetchWithRetry. phase: "opt" (fn running, image normalization pending),
\* "backend" (fn running, generateContent pending), "sleep" (backoff timer pending),
\* "returned", "threw". calls, slept and outs record what the run has done; key is the
\* credential of the client of the pending backend call and keys those of all backend
\* calls of the run, in order; resp tells of the response that the composite call of fn
\* received its finishReason and whether a part of it had inlineData, NoResponse
\* before it.
NoResponse == [finish |-> "", inline |-> FALSE]
NoInv ==
    [op |-> "none", phase |-> "none", retries |-> 0, delay |-> 0, calls |-> 0,
     slept |-> <<>>, outs |-> <<>>, key |-> Null, value |-> Null, raised |-> NoErr,
     resp |-> NoResponse, keys |-> <<>>]

\* fetchWithRetry(fn) with the default budget: fn is invoked at once.
InvokerStart(op) ==
    [NoInv EXCEPT !.op = op, !.phase = "opt", !.retries = Retries,
                  !.delay = BaseDelay, !.calls = 1]

\* As IsRetryable, with every failure taken as retryable.
IsRetryableAny(v, e) == TRUE

IsRetryable(v, e) ==
    IF v = "gated"
    THEN Has429(e.msg) \/ e.status = 429
    ELSE Has429(e.msg) \/ e.status = 429 \/ HasQuota(e.msg)

\* As InvokerCatch, without the credential check in either variant.
InvokerCatchNoCredential(v, inv, e) ==
    LET seen == [inv EXCEPT !.outs = Append(@, e)] IN
    IF inv.retries > 0 /\ IsRetryable(v, e)
    THEN [seen EXCEPT !.phase = "sleep", !.slept = Append(@, inv.delay)]
    ELSE [seen EXCEPT !.phase = "threw", !.raised = e]

\* As InvokerCatch, with the credential check made for the first invocation only.
InvokerCatchCredentialFirstOnly(v, inv, e) ==
    LET seen == [inv EXCEPT !.outs = Append(@, e)] IN
    IF v = "gated" /\ HasNotFound(e.msg) /\ inv.calls = 1
    THEN [seen EXCEPT !.phase = "threw", !.raised = KeyNotFound]
    ELSE IF inv.retries > 0 /\ IsRetryable(v, e)
    THEN [seen EXCEPT !.phase = "sleep", !.slept = Append(@, inv.delay)]
    ELSE [seen EXCEPT !.phase = "threw", !.raised = e]

\* The catch block: fn threw e.
InvokerCatch(v, inv, e) ==
    LET seen == [inv EXCEPT !.outs = Append(@, e)] IN
    IF v = "gated" /\ HasNotFound(e.msg)
    THEN [seen EXCEPT !.phase = "threw", !.raised = KeyNotFound]
    ELSE IF inv.retries > 0 /\ IsRetryable(v, e)
    THEN [seen EXCEPT !.phase = "sleep", !.slept = Append(@, inv.delay)]
    ELSE [seen EXCEPT !.phase = "threw", !.raised = e]

\* As InvokerRetry, with the budget passed on unchanged.
InvokerRetrySameBudget(inv) ==
    [inv EXCEPT !.phase = "opt", !.delay = @ * 2, !.calls = @ + 1, !.key = Null]

\* As InvokerRetry, with the delay passed on unchanged.
InvokerRetrySameDelay(inv) ==
    [inv EXCEPT !.phase = "opt", !.retries = @ - 1, !.calls = @ + 1, !.key = Null]

\* As InvokerRetry, with the normalized image of the failed invocation used again.
InvokerRetrySkipsNormalization(inv) ==
    [inv EXCEPT !.phase = "backend", !.retries = @ - 1, !.delay = @ * 2,
                !.calls = @ + 1]

\* The timer fired: fetchWithRetry(fn, retries - 1, delay * 2) invokes fn again.
InvokerRetry(inv) ==
    [inv EXCEPT !.phase = "opt", !.retries = @ - 1, !.delay = @ * 2,
                !.calls = @ + 1, !.key = Null]

\* As InvokerReturn, with the result of a retried invocation not passed up.
InvokerReturnLost(inv, x) ==
    [inv EXCEPT !.phase = "returned", !.value = IF inv.calls > 1 THEN Null ELSE x]

\* fn resolved with x.
InvokerReturn(inv, x) == [inv EXCEPT !.phase = "returned", !.value = x]

----------------------------------------------------------------------------
(* Generation Client: size parsing of estimateSizeFromImage *)

\* Response texts are sequences of characters; Undef is an absent response.text.
Undef == <<"undefined">>
Chars == {"X", "S", "M", "L", "x", "s", " ", "a"}
Texts == UNION {[1..n -> Chars] : n \in 0..MaxTextLen} \cup {Undef}

ToUpperChar(c) ==
    CASE c = "x" -> "X"
      [] c = "s" -> "S"
      [] c = "a" -> "A"
      [] OTHER -> c
ToUpperCase(t) == [i \in 1..Len(t) |-> ToUpperChar(t[i])]

RECURSIVE TrimStart(_)
TrimStart(t) == IF t # <<>> /\ Head(t) = " " THEN TrimStart(Tail(t)) ELSE t
RECURSIVE TrimEnd(_)
TrimEnd(t) ==
    IF t # <<>> /\ t[Len(t)] = " " THEN TrimEnd(SubSeq(t, 1, Len(t) - 1)) ELSE t
Trim(t) == TrimEnd(TrimStart(t))

\* String.includes
Includes(t, s) ==
    \E i \in 1..(Len(t) - Len(s) + 1) : SubSeq(t, i, i + Len(s) - 1) = s

\* The size codes, as the strings of the program and as character sequences.
validSizes == <<"XS", "S", "M", "L", "XL", "XXL">>
CharsOf(code) ==
    CASE code = "XS" -> <<"X", "S">>
      [] code = "S" -> <<"S">>
      [] code = "M" -> <<"M">>
      [] code = "L" -> <<"L">>
      [] code = "XL" -> <<"X", "L">>
      [] code = "XXL" -> <<"X", "X", "L">>

\* Array.find: the first element of list, from index k on, that size includes.
RECURSIVE Find(_, _, _)
Find(list, size, k) ==
    IF k > Len(list) THEN Null
    ELSE IF Includes(size, CharsOf(list[k])) THEN list[k]
    ELSE Find(list, size, k + 1)

\* As ParseSize, without the toUpperCase.
ParseSizeNoUpper(text) ==
    LET trimmed == IF text = Undef THEN <<>> ELSE Trim(text)
        size == IF trimmed = <<>> THEN <<"M">> ELSE trimmed
        found == Find(validSizes, size, 1)
    IN IF found = Null THEN "M" ELSE found

\* response.text?.trim().toUpperCase() || 'M', then validSizes.find(...) || 'M'
ParseSize(text) ==
    LET upper == IF text = Undef THEN <<>> ELSE ToUpperCase(Trim(text))
        size == IF upper = <<>> THEN <<"M">> ELSE upper
        found == Find(validSizes, size, 1)
    IN IF found = Null THEN "M" ELSE found

\* The response texts the backend gives in the orchestrated runs.
MainTexts ==
    {Undef, <<>>, <<"x", "s">>, <<" ", "S", " ">>, <<"X", "L">>, <<"a", "a">>}

----------------------------------------------------------------------------
(* Generation Client: response inspection of performVirtualTryOn *)

\* A response part: with or without inlineData, and the data it carries.
TextPart == [inline |-> FALSE, data |-> ""]
ImgPart(d) == [inline |-> TRUE, data |-> d]

\* candidates[0] of a response; NoCandidate is a response with no candidates.
NoCandidate == [finish |-> "NONE", parts |-> <<>>]
ComposeResponses ==
    {NoCandidate} \cup
    [finish : {"STOP", "SAFETY"},
     parts : {<<>>, <<ImgPart("d1")>>, <<TextPart, ImgPart("d1"), ImgPart("d2")>>,
              <<ImgPart(""), ImgPart("d1")>>}]

RECURSIVE FindInline(_, _)
FindInline(parts, k) ==
    IF k > Len(parts) THEN TextPart
    ELSE IF parts[k].inline THEN parts[k]
    ELSE FindInline(parts, k + 1)

DataUri(d) == "data:image/jpeg;base64," \o d

\* As ComposeInspect, without the check of finishReason.
ComposeInspectNoSafety(v, resp) ==
    LET part == FindInline(resp.parts, 1) IN
    IF part.inline /\ part.data # ""
    THEN [ok |-> TRUE, value |-> DataUri(part.data), err |-> NoErr]
    ELSE [ok |-> FALSE, value |-> Null, err |-> ENoImage(v)]

\* The outcome of the wrapped operation of performVirtualTryOn on a response.
ComposeInspect(v, resp) ==
    LET part == FindInline(resp.parts, 1) IN
    IF resp.finish = "SAFETY" THEN [ok |-> FALSE, value |-> Null, err |-> ESafety(v)]
    ELSE IF part.inline /\ part.data # ""
    THEN [ok |-> TRUE, value |-> DataUri(part.data), err |-> NoErr]
    ELSE [ok |-> FALSE, value |-> Null, err |-> ENoImage(v)]

----------------------------------------------------------------------------
(* Try-On Orchestrator: handleTryOn *)

LoadingLabel(v, stage) ==
    CASE stage = "fetch" ->
            IF v = "gated" THEN "Lade High-End-Modell..." ELSE "Produkt wird geladen..."
      [] stage = "estimate" ->
            IF v = "gated" THEN "Analysiere Proportionen..." ELSE "Groesse wird berechnet..."
      [] stage = "compose" ->
            IF v = "gated" THEN "Generiere Foto-Realismus..." ELSE "Look wird gerendert..."

BusyMessage(v) ==
    IF v = "gated" THEN "Die KI ist gerade ausgelastet. Bitte warte einen Moment."
    ELSE "Server ausgelastet. Bitte kurz warten."
TechnicalMessage == "Ein technischer Fehler ist aufgetreten."
KeyMessage == "Bitte waehle deinen API Key erneut aus."
ReadErrorMessage == "Fehler beim Lesen der Bilddatei."

InitialState ==
    [userImage |-> Null, selectedProduct |-> Null, resultImage |-> Null,
     recommendedSize |-> Null, isLoading |-> FALSE, error |-> Null]

\* One invocation of handleTryOn that passed the entry guard. userImage and product
\* are the values of the closure; pc is the await it is suspended at: "fetch",
\* "estimate", "pace", "compose", or "done"; paced tells that the pacing timer has
\* fired. Idle is a slot with no invocation.
NewAttempt(img, prod) ==
    [pc |-> "fetch", userImage |-> img, product |-> prod, productBase64 |-> Null,
     size |-> Null, paced |-> FALSE, inv |-> NoInv, outcome |-> "none",
     caught |-> NoErr]

Idle ==
    [pc |-> "idle", userImage |-> Null, product |-> Null, productBase64 |-> Null,
     size |-> Null, paced |-> FALSE, inv |-> NoInv, outcome |-> "none",
     caught |-> NoErr]

\* urlToBase64 resolved (or returned the data: locator): estimateSizeFromImage starts.
AfterFetch(a, b64) ==
    [a EXCEPT !.pc = "estimate", !.productBase64 = b64, !.inv = InvokerStart("estimate")]

\* As AfterEstimate, with performVirtualTryOn started without the pacing timer.
AfterEstimateNoPace(a, inv2) ==
    [a EXCEPT !.pc = "compose", !.size = inv2.value, !.inv = InvokerStart("compose")]

\* estimateSizeFromImage resolved: the pacing timer starts.
AfterEstimate(a, inv2) ==
    [a EXCEPT !.pc = "pace", !.size = inv2.value, !.inv = inv2]

\* As AfterPace, with estimateSizeFromImage started once more.
AfterPaceEstimatesAgain(a) ==
    [a EXCEPT !.pc = "estimate", !.paced = TRUE, !.inv = InvokerStart("estimate")]

\* The pacing timer fired: performVirtualTryOn starts.
AfterPace(a) ==
    [a EXCEPT !.pc = "compose", !.paced = TRUE, !.inv = InvokerStart("compose")]

\* The setState of the success path.
TryOnSuccess(st, result, size) ==
    [st EXCEPT !.resultImage = result, !.recommendedSize = size, !.isLoading = FALSE]

\* As TryOnCatch, with isLoading left as it is.
TryOnCatchStillLoading(v, st, e) ==
    IF v = "gated" /\ e.msg = KeyNotFound.msg
    THEN [st EXCEPT !.error = KeyMessage]
    ELSE LET msg == IF e.msg = "" THEN TechnicalMessage ELSE e.msg IN
         [st EXCEPT !.error = IF Has429(msg) THEN BusyMessage(v) ELSE msg]

\* As TryOnCatch, without the default for an error that has no message.
TryOnCatchNoDefault(v, st, e) ==
    IF v = "gated" /\ e.msg = KeyNotFound.msg
    THEN [st EXCEPT !.isLoading = FALSE, !.error = KeyMessage]
    ELSE [st EXCEPT !.isLoading = FALSE,
                    !.error = IF Has429(e.msg) THEN BusyMessage(v) ELSE e.msg]

\* The setState of the catch block.
TryOnCatch(v, st, e) ==
    IF v = "gated" /\ e.msg = KeyNotFound.msg
    THEN [st EXCEPT !.isLoading = FALSE, !.error = KeyMessage]
    ELSE LET msg == IF e.msg = "" THEN TechnicalMessage ELSE e.msg IN
         [st EXCEPT !.isLoading = FALSE,
                    !.error = IF Has429(msg) THEN BusyMessage(v) ELSE msg]

\* The setHasKey of the catch block.
CatchHasKey(v, hk, e) ==
    IF v = "gated" /\ e.msg = KeyNotFound.msg THEN "false" ELSE hk

----------------------------------------------------------------------------
(* The state machine *)

NoProbe == [text |-> Undef, size |-> Null]

Slots == DOMAIN attempts
InFlight == {i \in Slots : attempts[i].pc # "idle"}

Init ==
    /\ variant \in Variants
    /\ state = InitialState
    /\ hasKey = "null"
    /\ loadingStep = ""
    /\ step = 1
    /\ attempts = [i \in 1..MaxAttempts |-> Idle]
    /\ finished = Idle
    /\ uploads = {}
    /\ keyCheck = IF variant = "gated" THEN "pending" ELSE "none"
    /\ keyDialog = FALSE
    /\ apiKey = "k1"
    /\ noops = 0
    /\ probe = NoProbe

\* No invocation of handleTryOn ends in this step.
Quiet == finished' = Idle

\* The gated App renders only the setup screen while hasKey === false.
MainVisible == ~Gated \/ hasKey # "false"

(* Credential selection (gated App) *)

\* checkKey: hasSelectedApiKey() resolved with b.
CheckKeyDone(b) ==
    /\ keyCheck = "pending"
    /\ keyCheck' = "done"
    /\ hasKey' = b
    /\ Quiet
    /\ UNCHANGED <<variant, state, loadingStep, step, attempts, uploads, keyDialog,
                   apiKey, noops, probe>>

\* handleSelectKey up to its await: the dialog opens.
ClickSelectKey ==
    /\ Gated /\ hasKey = "false" /\ ~keyDialog
    /\ keyDialog' = TRUE
    /\ Quiet
    /\ UNCHANGED <<variant, state, hasKey, loadingStep, step, attempts, uploads,
                   keyCheck, apiKey, noops, probe>>

\* handleSelectKey after its await: the dialog closed, the environment holds key k.
SelectKeyDone(k) ==
    /\ keyDialog
    /\ keyDialog' = FALSE
    /\ apiKey' = k
    /\ hasKey' = "true"
    /\ Quiet
    /\ UNCHANGED <<variant, state, loadingStep, step, attempts, uploads, keyCheck, noops, probe>>

(* Selection, upload and navigation *)

\* handleProductSelect, from a ProductCard of step 1.
SelectProduct(p) ==
    /\ MainVisible /\ step = 1
    /\ state' = [state EXCEPT !.selectedProduct = p]
    /\ Quiet
    /\ UNCHANGED <<variant, hasKey, loadingStep, step, attempts, uploads, keyCheck,
                   keyDialog, apiKey, noops, probe>>

\* The forward button of step 1 (disabled without a product) and the back button of step 2.
GoToStep(n) ==
    /\ MainVisible
    /\ \/ n = 2 /\ step = 1 /\ state.selectedProduct # Null
       \/ n = 1 /\ step = 2
    /\ step' = n
    /\ Quiet
    /\ UNCHANGED <<variant, state, hasKey, loadingStep, attempts, uploads, keyCheck,
                   keyDialog, apiKey, noops, probe>>

\* handleFileUpload up to its await: the file input of step 2 shows while no image is set.
UploadStart(f) ==
    /\ MainVisible /\ step = 2 /\ state.userImage = Null
    /\ f \notin uploads /\ Cardinality(uploads) < MaxUploads
    /\ uploads' = uploads \cup {f}
    /\ Quiet
    /\ UNCHANGED <<variant, state, hasKey, loadingStep, step, attempts, keyCheck,
                   keyDialog, apiKey, noops, probe>>

\* handleFileUpload after its await: fileToBase64 resolved or rejected.
UploadDone(f) ==
    /\ f \in uploads
    /\ uploads' = uploads \ {f}
    /\ state' = IF f = "unreadable"
                THEN [state EXCEPT !.error = ReadErrorMessage]
                ELSE [state EXCEPT !.userImage = f, !.error = Null]
    /\ Quiet
    /\ UNCHANGED <<variant, hasKey, loadingStep, step, attempts, keyCheck, keyDialog,
                   apiKey, noops, probe>>

\* The remove button on the preview of step 2.
RemoveImage ==
    /\ MainVisible /\ step = 2 /\ state.userImage # Null
    /\ state' = [state EXCEPT !.userImage = Null]
    /\ Quiet
    /\ UNCHANGED <<variant, hasKey, loadingStep, step, attempts, uploads, keyCheck,
                   keyDialog, apiKey, noops, probe>>

\* What reset works on: the three pieces of state it sets.
AppView == [state |-> state, loadingStep |-> loadingStep, step |-> step]

\* As ResetApp, with the error left in place.
ResetAppKeepsError(v) ==
    [v EXCEPT !.state = [InitialState EXCEPT !.error = v.state.error],
              !.loadingStep = "", !.step = 1]

\* The three setters of reset.
ResetApp(v) == [v EXCEPT !.state = InitialState, !.loadingStep = "", !.step = 1]

\* reset, from the header button or the buttons of step 3.
Reset ==
    /\ MainVisible
    /\ state' = ResetApp(AppView).state
    /\ loadingStep' = ResetApp(AppView).loadingStep
    /\ step' = ResetApp(AppView).step
    /\ Quiet
    /\ UNCHANGED <<variant, hasKey, attempts, uploads, keyCheck, keyDialog, apiKey, noops, probe>>

(* handleTryOn *)

\* As TryOnGuard, without the check of the product.
TryOnGuardImageOnly(st) == st.userImage = Null

\* The entry guard: true when the handler returns at once.
TryOnGuard(st) == st.userImage = Null \/ st.selectedProduct = Null

\* handleTryOn from its entry to its first pending await.
HandleTryOn ==
    IF TryOnGuard(state)
    THEN /\ noops < MaxNoops
         /\ noops' = noops + 1
         /\ Quiet
         /\ UNCHANGED <<variant, state, hasKey, loadingStep, step, attempts, uploads,
                        keyCheck, keyDialog, apiKey, probe>>
    ELSE /\ InFlight # Slots
         /\ state' = [state EXCEPT !.isLoading = TRUE, !.error = Null]
         /\ step' = 3
         /\ LET i == CHOOSE j \in Slots \ InFlight : \A k \in Slots \ InFlight : j <= k
                a == NewAttempt(state.userImage, state.selectedProduct)
            IN IF StartsWithData(state.selectedProduct)
               THEN /\ attempts' = [attempts EXCEPT
                                       ![i] = AfterFetch(a, state.selectedProduct)]
                    /\ loadingStep' = LoadingLabel(variant, "estimate")
               ELSE /\ attempts' = [attempts EXCEPT ![i] = a]
                    /\ loadingStep' = LoadingLabel(variant, "fetch")
         /\ Quiet
         /\ UNCHANGED <<variant, hasKey, uploads, keyCheck, keyDialog, apiKey, noops, probe>>

\* The start button of step 2, disabled without a user image.
ClickStart ==
    /\ MainVisible /\ step = 2 /\ state.userImage # Null
    /\ HandleTryOn

\* The retry button of the error screen of step 3.
ClickRetry ==
    /\ MainVisible /\ step = 3 /\ ~state.isLoading /\ state.error # Null
    /\ HandleTryOn

\* handleTryOn invoked in whatever state the App is in.
DirectTryOn == HandleTryOn

\* The catch block of handleTryOn in attempt i, which ends as a; e is what it caught.
Catch(i, a, e) ==
    /\ finished' = [a EXCEPT !.pc = "done", !.outcome = "error", !.caught = e]
    /\ attempts' = [attempts EXCEPT ![i] = Idle]
    /\ state' = TryOnCatch(variant, state, e)
    /\ hasKey' = CatchHasKey(variant, hasKey, e)
    /\ UNCHANGED loadingStep

\* handleTryOn after the invoker of attempt i has moved to inv2: the catch block when
\* it threw, the next stage when it returned.
Settle(i, inv2) ==
    LET a == attempts[i] IN
    IF inv2.phase = "threw"
    THEN Catch(i, [a EXCEPT !.inv = inv2], inv2.raised)
    ELSE IF inv2.phase = "returned" /\ inv2.op = "estimate"
    THEN /\ attempts' = [attempts EXCEPT ![i] = AfterEstimate(a, inv2)]
         /\ Quiet
         /\ UNCHANGED <<state, hasKey, loadingStep>>
    ELSE IF inv2.phase = "returned"
    THEN /\ finished' = [a EXCEPT !.inv = inv2, !.pc = "done", !.outcome = "result"]
         /\ attempts' = [attempts EXCEPT ![i] = Idle]
         /\ state' = TryOnSuccess(state, inv2.value, a.size)
         /\ UNCHANGED <<hasKey, loadingStep>>
    ELSE /\ attempts' = [attempts EXCEPT ![i] = [a EXCEPT !.inv = inv2]]
         /\ Quiet
         /\ UNCHANGED <<state, hasKey, loadingStep>>

\* urlToBase64: the proxied image loaded.
FetchDone(i) ==
    /\ attempts[i].pc = "fetch"
    /\ attempts' = [attempts EXCEPT ![i] = AfterFetch(@, "jpeg:" \o attempts[i].product)]
    /\ loadingStep' = LoadingLabel(variant, "estimate")
    /\ Quiet
    /\ UNCHANGED <<variant, state, hasKey, step, uploads, keyCheck, keyDialog, apiKey, noops, probe>>

\* urlToBase64: the proxied image failed to load; handleTryOn catches the error.
FetchFail(i) ==
    /\ attempts[i].pc = "fetch"
    /\ Catch(i, attempts[i], EProductImage)
    /\ UNCHANGED <<variant, step, uploads, keyCheck, keyDialog, apiKey,
                   noops, probe>>

\* As ClientKey, with the client of the first backend call of the run kept for its retries.
ClientKeyCached(inv, current) == IF inv.keys # <<>> THEN inv.keys[1] ELSE current

\* new GoogleGenAI({ apiKey: process.env.API_KEY }): the credential of the client that
\* an invocation of fn builds, current being the value of the environment at that moment.
ClientKey(inv, current) == current

\* As UserBase64, with the user image read from the state of the App at the call.
UserBase64OfLiveState(a, st) == st.userImage

\* state.userImage as the closure of the invocation a of handleTryOn holds it: the
\* first argument of estimateSizeFromImage and performVirtualTryOn.
UserBase64(a, st) == a.userImage

\* The wrapped operation: optimizeImage settled. On success the client is built from
\* the current credential and generateContent is issued.
Normalized(i) ==
    /\ attempts[i].pc \in {"estimate", "compose"}
    /\ attempts[i].inv.phase = "opt"
    /\ IF Decodable(UserBase64(attempts[i], state))
       THEN Settle(i, [attempts[i].inv EXCEPT
                          !.phase = "backend",
                          !.key = ClientKey(attempts[i].inv, apiKey),
                          !.keys = Append(@, ClientKey(attempts[i].inv, apiKey))])
       ELSE Settle(i, InvokerCatch(variant, attempts[i].inv, EDecode))
    /\ UNCHANGED <<variant, step, uploads, keyCheck, keyDialog, apiKey,
                   noops, probe>>

\* generateContent rejected with e.
BackendThrows(i, e) ==
    /\ attempts[i].pc \in {"estimate", "compose"}
    /\ attempts[i].inv.phase = "backend"
    /\ Settle(i, InvokerCatch(variant, attempts[i].inv, e))
    /\ UNCHANGED <<variant, step, uploads, keyCheck, keyDialog, apiKey, noops, probe>>

\* generateContent of estimateSizeFromImage resolved with response text t.
EstimateResponds(i, t) ==
    /\ attempts[i].pc = "estimate"
    /\ attempts[i].inv.phase = "backend"
    /\ Settle(i, InvokerReturn(attempts[i].inv, ParseSize(t)))
    /\ UNCHANGED <<variant, step, uploads, keyCheck, keyDialog, apiKey,
                   noops, probe>>

\* generateContent of performVirtualTryOn resolved with response r.
ComposeResponds(i, r) ==
    /\ attempts[i].pc = "compose"
    /\ attempts[i].inv.phase = "backend"
    /\ LET out == ComposeInspect(variant, r)
           inv1 == [attempts[i].inv EXCEPT
                       !.resp = [finish |-> r.finish,
                                 inline |-> FindInline(r.parts, 1).inline]]
       IN IF out.ok
          THEN Settle(i, InvokerReturn(inv1, out.value))
          ELSE Settle(i, InvokerCatch(variant, inv1, out.err))
    /\ UNCHANGED <<variant, step, uploads, keyCheck, keyDialog, apiKey,
                   noops, probe>>

\* The backoff timer of the invoker fired.
WakeUp(i) ==
    /\ attempts[i].pc \in {"estimate", "compose"}
    /\ attempts[i].inv.phase = "sleep"
    /\ attempts' = [attempts EXCEPT ![i].inv = InvokerRetry(@)]
    /\ Quiet
    /\ UNCHANGED <<variant, state, hasKey, loadingStep, step, uploads, keyCheck,
                   keyDialog, apiKey, noops, probe>>

\* The pacing timer of handleTryOn fired.
PaceDone(i) ==
    /\ attempts[i].pc = "pace"
    /\ attempts' = [attempts EXCEPT ![i] = AfterPace(@)]
    /\ loadingStep' = LoadingLabel(variant, "compose")
    /\ Quiet
    /\ UNCHANGED <<variant, state, hasKey, step, uploads, keyCheck, keyDialog, apiKey, noops, probe>>

User ==
    \/ \E p \in Products : SelectProduct(p)
    \/ \E n \in 1..2 : GoToStep(n)
    \/ \E f \in Files : UploadStart(f)
    \/ RemoveImage
    \/ Reset
    \/ ClickStart
    \/ ClickRetry
    \/ ClickSelectKey

Completion ==
    \/ \E b \in {"true", "false"} : CheckKeyDone(b)
    \/ \E k \in Keys : SelectKeyDone(k)
    \/ \E f \in Files : UploadDone(f)
    \/ \E i \in Slots :
        \/ FetchDone(i)
        \/ FetchFail(i)
        \/ Normalized(i)
        \/ \E e \in BackendErrors : BackendThrows(i, e)
        \/ \E t \in MainTexts : EstimateResponds(i, t)
        \/ \E r \in ComposeResponses : ComposeResponds(i, r)
        \/ WakeUp(i)
        \/ PaceDone(i)

Next == User \/ Completion

Spec == Init /\ [][Next]_vars

\* One outcome of each kind that the control flow tells apart: a retryable and a
\* credential failure of the backend, one size text, a rejected, an empty and a good
\* composite response, a decodable and an undecodable photo.
KindErrors == {E429Msg, ENotFound}
KindTexts == {<<"x", "s">>}
KindResponses ==
    {NoCandidate, [finish |-> "SAFETY", parts |-> <<>>],
     [finish |-> "STOP", parts |-> <<ImgPart("d1")>>]}
KindFiles == {"imgA", "imgBad"}

\* A pending call or timer of attempt i completes.
Progress(i) ==
    \/ FetchDone(i)
    \/ FetchFail(i)
    \/ Normalized(i)
    \/ \E e \in KindErrors : BackendThrows(i, e)
    \/ \E t \in KindTexts : EstimateResponds(i, t)
    \/ \E r \in KindResponses : ComposeResponds(i, r)
    \/ WakeUp(i)
    \/ PaceDone(i)

NextKinds ==
    \/ \E p \in Products : SelectProduct(p)
    \/ \E n \in 1..2 : GoToStep(n)
    \/ \E f \in KindFiles : UploadStart(f)
    \/ \E f \in KindFiles : UploadDone(f)
    \/ RemoveImage
    \/ Reset
    \/ ClickStart
    \/ ClickRetry
    \/ ClickSelectKey
    \/ \E b \in {"true", "false"} : CheckKeyDone(b)
    \/ \E k \in Keys : SelectKeyDone(k)
    \/ \E i \in Slots : Progress(i)

\* The App when every external call and every timer of an attempt eventually completes.
SpecLive == Init /\ [][NextKinds]_vars /\ \A i \in 1..MaxAttempts : WF_vars(Progress(i))

\* The App with room for one more invocation of handleTryOn than Spec follows: two
\* attempts can be in flight side by side.
InitPair ==
    /\ variant \in Variants
    /\ state = InitialState
    /\ hasKey = "null"
    /\ loadingStep = ""
    /\ step = 1
    /\ attempts = [i \in 1..(MaxAttempts + 1) |-> Idle]
    /\ finished = Idle
    /\ uploads = {}
    /\ keyCheck = IF variant = "gated" THEN "pending" ELSE "none"
    /\ keyDialog = FALSE
    /\ apiKey = "k1"
    /\ noops = 0
    /\ probe = NoProbe

\* The steps followed side by side: one readable photo, and of the backend one failure
\* that is not retried, one size text, and a good composite response.
NextPair ==
    \/ \E p \in Products : SelectProduct(p)
    \/ \E n \in 1..2 : GoToStep(n)
    \/ UploadStart("imgA")
    \/ UploadDone("imgA")
    \/ RemoveImage
    \/ Reset
    \/ ClickStart
    \/ ClickRetry
    \/ ClickSelectKey
    \/ \E b \in {"true", "false"} : CheckKeyDone(b)
    \/ \E k \in Keys : SelectKeyDone(k)
    \/ \E i \in Slots :
        \/ FetchDone(i)
        \/ FetchFail(i)
        \/ Normalized(i)
        \/ BackendThrows(i, ENotFound)
        \/ EstimateResponds(i, <<"x", "s">>)
        \/ ComposeResponds(i, [finish |-> "STOP", parts |-> <<ImgPart("d1")>>])
        \/ PaceDone(i)

SpecPair == InitPair /\ [][NextPair]_vars

\* The handler as the core exposes it: the trigger is not restricted to the buttons.
NextCore == NextKinds \/ DirectTryOn

SpecCore == Init /\ [][NextCore]_vars

----------------------------------------------------------------------------
(* Size parsing on its own: every response text up to MaxTextLen characters *)

InitSize ==
    /\ variant \in Variants
    /\ state = InitialState
    /\ hasKey = "null"
    /\ loadingStep = ""
    /\ step = 1
    /\ attempts = [i \in 1..MaxAttempts |-> Idle]
    /\ finished = Idle
    /\ uploads = {}
    /\ keyCheck = IF variant = "gated" THEN "pending" ELSE "none"
    /\ keyDialog = FALSE
    /\ apiKey = "k1"
    /\ noops = 0
    /\ probe \in [text : Texts, size : {Null}]

\* The last two statements of the wrapped operation of estimateSizeFromImage.
ParseResponse ==
    /\ probe.size = Null
    /\ probe' = [probe EXCEPT !.size = ParseSize(probe.text)]
    /\ UNCHANGED <<variant, state, hasKey, loadingStep, step, attempts, finished,
                   uploads, keyCheck, keyDialog, apiKey, noops>>

NextSize == ParseResponse

SpecSize == InitSize /\ [][NextSize]_vars

----------------------------------------------------------------------------
(* Image normalization on its own: optimizeImage on every source up to MaxDim pixels
   a side and every bound up to MaxBound *)

\* A source as the Image element reports it: loads tells whether onload fires (onerror
\* otherwise), width and height are img.width and img.height. A source that does not
\* load has no dimensions; one that loads can report 0, as an SVG without size does.
Sources ==
    {[loads |-> FALSE, width |-> 0, height |-> 0]} \cup
    [loads : {TRUE}, width : 0..MaxDim, height : 0..MaxDim]

NoOutcome == [kind |-> "none", width |-> 0, height |-> 0, err |-> ""]
Resolved(w, h) == [kind |-> "resolved", width |-> w, height |-> h, err |-> ""]
Rejected(m) == [kind |-> "rejected", width |-> 0, height |-> 0, err |-> m]

\* edge *= maxWidth / longer, stored into a canvas dimension. The quotient is rounded to
\* a double before the product is taken and the canvas keeps the integer part: when the
\* exact product is a whole number the result is that number or the one below it.
ScaledEdge(edge, maxWidth, longer) ==
    LET exact == (edge * maxWidth) \div longer IN
    IF (edge * maxWidth) % longer = 0 /\ exact > 0 THEN {exact, exact - 1} ELSE {exact}

\* As CanvasSize, without the tests against maxWidth.
CanvasSizeAlwaysScaled(width, height, maxWidth) ==
    IF width > height
    THEN {<<maxWidth, e>> : e \in ScaledEdge(height, maxWidth, width)}
    ELSE IF height > 0
    THEN {<<e, maxWidth>> : e \in ScaledEdge(width, maxWidth, height)}
    ELSE {<<width, height>>}

\* The canvas dimensions that onload computes from img.width and img.height.
CanvasSize(width, height, maxWidth) ==
    IF width > height
    THEN IF width > maxWidth
         THEN {<<maxWidth, e>> : e \in ScaledEdge(height, maxWidth, width)}
         ELSE {<<width, height>>}
    ELSE IF height > maxWidth
         THEN {<<e, maxWidth>> : e \in ScaledEdge(width, maxWidth, height)}
         ELSE {<<width, height>>}

\* The ways optimizeImage(src, maxWidth) settles; ctx tells whether getContext('2d')
\* gives a context.
OptimizeImage(src, maxWidth, ctx) ==
    IF ~src.loads THEN {Rejected(EDecode.msg)}
    ELSE IF ~ctx THEN {Rejected("Canvas failure")}
    ELSE {Resolved(d[1], d[2]) : d \in CanvasSize(src.width, src.height, maxWidth)}

InitImage ==
    /\ variant \in Variants
    /\ state = InitialState
    /\ hasKey = "null"
    /\ loadingStep = ""
    /\ step = 1
    /\ attempts = [i \in 1..MaxAttempts |-> Idle]
    /\ finished = Idle
    /\ uploads = {}
    /\ keyCheck = IF variant = "gated" THEN "pending" ELSE "none"
    /\ keyDialog = FALSE
    /\ apiKey = "k1"
    /\ noops = 0
    /\ probe \in [src : Sources, maxWidth : 1..MaxBound, ctx : BOOLEAN, out : {NoOutcome}]

\* optimizeImage settles.
Optimize ==
    /\ probe.out = NoOutcome
    /\ \E o \in OptimizeImage(probe.src, probe.maxWidth, probe.ctx) :
            probe' = [probe EXCEPT !.out = o]
    /\ UNCHANGED <<variant, state, hasKey, loadingStep, step, attempts, finished,
                   uploads, keyCheck, keyDialog, apiKey, noops>>

NextImage == Optimize

SpecImage == InitImage /\ [][NextImage]_vars

----------------------------------------------------------------------------
(* Response inspection on its own: every response of up to MaxParts parts *)

PartKinds == {TextPart, ImgPart(""), ImgPart("d1"), ImgPart("d2")}
PartLists == UNION {[1..n -> PartKinds] : n \in 0..MaxParts}
InspectedResponses ==
    {NoCandidate} \cup [finish : {"STOP", "SAFETY", "MAX_TOKENS"}, parts : PartLists]

NotInspected == [ok |-> FALSE, value |-> Null, err |-> NoErr]

InitInspect ==
    /\ variant \in Variants
    /\ state = InitialState
    /\ hasKey = "null"
    /\ loadingStep = ""
    /\ step = 1
    /\ attempts = [i \in 1..MaxAttempts |-> Idle]
    /\ finished = Idle
    /\ uploads = {}
    /\ keyCheck = IF variant = "gated" THEN "pending" ELSE "none"
    /\ keyDialog = FALSE
    /\ apiKey = "k1"
    /\ noops = 0
    /\ probe \in [resp : InspectedResponses, out : {NotInspected}]

\* The statements of performVirtualTryOn that follow generateContent.
Inspect ==
    /\ probe.out = NotInspected
    /\ probe' = [probe EXCEPT !.out = ComposeInspect(variant, probe.resp)]
    /\ UNCHANGED <<variant, state, hasKey, loadingStep, step, attempts, finished,
                   uploads, keyCheck, keyDialog, apiKey, noops>>

NextInspect == Inspect

SpecInspect == InitInspect /\ [][NextInspect]_vars

----------------------------------------------------------------------------
(* Properties of the Resilient Invoker *)

\* The runs of fetchWithRetry in sight: those in flight and the one that just ended.
Runs ==
    {attempts[i].inv : i \in InFlight} \cup
    (IF finished.pc = "done" /\ finished.inv.op # "none" THEN {finished.inv} ELSE {})

\* The signals a failure can carry.
RateLimitSignal(e) == e.msg = "got status: 429 Too Many Requests" \/ e.status = 429
QuotaSignal(e) == e.msg = "You exceeded your current quota"
NotFoundSignal(e) == e.msg = "Requested entity was not found."

\* C1: a run of the Invoker with the default budget invokes the wrapped operation at
\* most retries + 1 = 3 times, whatever the outcomes of the operation.
C1_AtMostThreeInvocations ==
    \A r \in Runs : r.calls <= 3 /\ Len(r.outs) <= r.calls

\* A run has reached its third invocation.
C1_Witness == \E r \in Runs : r.calls = 3 /\ r.phase = "backend"

\* C2: a run in which every try failed with a rate-limit signal has invoked the
\* operation exactly 3 times, has waited 2000 ms and then 4000 ms, and has raised the
\* last error it observed; and no such run ends before its third try.
C2_RateLimitedRun ==
    \A r \in Runs :
        (r.outs # <<>> /\ \A k \in 1..Len(r.outs) : RateLimitSignal(r.outs[k])) =>
            /\ r.phase = "sleep" => r.slept = SubSeq(<<2000, 4000>>, 1, Len(r.outs))
            /\ r.phase = "threw" =>
                /\ r.calls = 3 /\ Len(r.outs) = 3
                /\ r.slept = <<2000, 4000>>
                /\ r.raised = r.outs[3]

\* A run ended on its third rate-limit failure, one of them signalled by status alone.
C2_Witness ==
    /\ finished.inv.phase = "threw"
    /\ Len(finished.inv.outs) = 3
    /\ \A k \in 1..3 : RateLimitSignal(finished.inv.outs[k])
    /\ \E k \in 1..3 : finished.inv.outs[k].status = 429

C4_QuotaRetried ==
    \A r \in Runs :
        \A k \in 1..Len(r.outs) :
            (QuotaSignal(r.outs[k]) /\ k <= 2) =>
                /\ ~(r.phase = "threw" /\ Len(r.outs) = k)
                /\ Len(r.slept) >= k
                /\ r.slept[k] = 2000 * 2^(k - 1)

\* C5: a failure that carries none of the three signals ends the run at that try: it
\* is the error raised, no wait follows it and no invocation follows it.
OtherFailure(e) == ~RateLimitSignal(e) /\ ~QuotaSignal(e) /\ ~NotFoundSignal(e)

C5_OtherFailurePropagates ==
    \A r \in Runs :
        \A k \in 1..Len(r.outs) :
            OtherFailure(r.outs[k]) =>
                /\ k = Len(r.outs)
                /\ r.phase = "threw"
                /\ r.raised = r.outs[k]
                /\ r.calls = k
                /\ Len(r.slept) = k - 1

\* The safety rejection was raised on the third try, after two rate-limit failures.
C5_Witness ==
    /\ finished.inv.phase = "threw"
    /\ Len(finished.inv.outs) = 3
    /\ RateLimitSignal(finished.inv.outs[1])
    /\ RateLimitSignal(finished.inv.outs[2])
    /\ finished.inv.outs[3] = ESafety(variant)
    /\ finished.inv.raised = ESafety(variant)

\* C6: a run that failed twice with a rate-limit signal and then succeeded has made 3
\* invocations, has waited 2000 ms and then 4000 ms, and has returned the result of
\* the third invocation to its caller.
ThirdTrySuccess(r) ==
    /\ r.phase = "returned"
    /\ Len(r.outs) = 2
    /\ RateLimitSignal(r.outs[1]) /\ RateLimitSignal(r.outs[2])

C6_SucceedsOnThird ==
    /\ \A r \in Runs :
        ThirdTrySuccess(r) => r.calls = 3 /\ r.slept = <<2000, 4000>> /\ r.value # Null
    /\ \A i \in InFlight :
        ThirdTrySuccess(attempts[i].inv) =>
            /\ attempts[i].inv.value \in {"XS", "S", "M", "L", "XL", "XXL"}
            /\ attempts[i].size = attempts[i].inv.value
    /\ (finished.pc = "done" /\ ThirdTrySuccess(finished.inv)) =>
            /\ finished.inv.value = "data:image/jpeg;base64,d1"
            /\ state.resultImage = finished.inv.value

\* performVirtualTryOn succeeded on its third try and its image was published.
C6_Witness ==
    /\ finished.pc = "done"
    /\ ThirdTrySuccess(finished.inv)
    /\ finished.inv.calls = 3
    /\ state.resultImage = "data:image/jpeg;base64,d1"

----------------------------------------------------------------------------
(* Properties of the Generation Client *)

\* C7: the parsed size is the first code, in the order XS, S, M, L, XL, XXL, that the
\* uppercased response text contains, and M when it contains none or is absent.
C7_FirstMatchInScanOrder ==
    probe.size # Null =>
        LET upper == IF probe.text = Undef THEN <<>> ELSE ToUpperCase(probe.text)
            hits == {k \in 1..6 : Includes(upper, CharsOf(validSizes[k]))}
        IN IF hits = {} THEN probe.size = "M"
           ELSE \E k \in hits : (\A j \in hits : k <= j) /\ probe.size = validSizes[k]

\* A lower-case text that contains several codes has been parsed.
C7_Witness == probe.text = <<"x", "s", "L">> /\ probe.size = "XS"

----------------------------------------------------------------------------
(* Properties of the Try-On Orchestrator *)

\* C8: in every attempt the stages follow one another: no invoker runs before the
\* product image is there; the size estimation runs with the product image fetched
\* and nothing estimated yet; while the pacing timer runs the estimation has returned
\* and no operation is in flight; the composite runs with the size estimated and the
\* pacing timer fired.
C8_StagesInOrder ==
    \A i \in InFlight :
        LET a == attempts[i] IN
        /\ a.pc \in {"fetch", "estimate", "pace", "compose"}
        /\ a.pc = "fetch" => a.inv.op = "none" /\ a.productBase64 = Null
        /\ a.inv.op = "estimate" /\ a.inv.phase \in {"opt", "backend", "sleep"} =>
                a.pc = "estimate" /\ a.productBase64 # Null /\ a.size = Null /\ ~a.paced
        /\ a.pc = "pace" =>
                a.inv.op = "estimate" /\ a.inv.phase = "returned" /\ a.size # Null
                /\ ~a.paced
        /\ a.inv.op = "compose" =>
                a.pc = "compose" /\ a.productBase64 # Null /\ a.size # Null /\ a.paced
                /\ a.inv.phase \in {"opt", "backend", "sleep"}

\* The composite call of an attempt is in flight.
C8_Witness ==
    \E i \in InFlight : attempts[i].inv.op = "compose" /\ attempts[i].inv.phase = "backend"

\* C9: the step in which an attempt ends publishes exactly one outcome: either the
\* result image with a size of the fixed set, the error left as it was, or an error
\* message, the result left as it was.
Ends(i) == attempts[i].pc # "idle" /\ attempts'[i].pc = "idle"

C9_ExactlyOneOutcome ==
    [][\A i \in Slots : Ends(i) =>
          \/ /\ finished'.outcome = "result"
             /\ finished'.inv.value \notin {Null, ""}
             /\ finished'.size \in {"XS", "S", "M", "L", "XL", "XXL"}
             /\ state' = [state EXCEPT !.resultImage = finished'.inv.value,
                                       !.recommendedSize = finished'.size,
                                       !.isLoading = FALSE]
          \/ /\ finished'.outcome = "error"
             /\ state'.error \notin {Null, ""}
             /\ state' = [state EXCEPT !.error = state'.error, !.isLoading = FALSE]
      ]_vars

\* An attempt has just ended with its result published.
C9_Witness ==
    /\ finished.pc = "done" /\ finished.outcome = "result"
    /\ state.resultImage = finished.inv.value
    /\ state.recommendedSize = "XS"
    /\ state.error = Null

\* C10: an invocation of handleTryOn while the user image or the selected product is
\* absent changes nothing of the App and starts no attempt.
Invoked == noops' # noops \/ \E i \in Slots : attempts[i].pc = "idle" /\ attempts'[i].pc # "idle"

C10_NoStartWithoutInputs ==
    [][((state.userImage = Null \/ state.selectedProduct = Null) /\ Invoked) =>
          UNCHANGED <<state, hasKey, loadingStep, step, attempts, uploads, keyCheck,
                      keyDialog, apiKey>>
      ]_vars

\* handleTryOn was invoked with the product absent and returned.
C10_Witness ==
    noops = 1 /\ state.userImage # Null /\ state.selectedProduct = Null

\* An attempt starts in this step: handleTryOn passed its entry guard.
Starts == \E i \in Slots : attempts[i].pc = "idle" /\ attempts'[i].pc # "idle"

\* The attempt that just ended failed with KEY_NOT_FOUND, raised for an entity-not-found
\* failure of the first invocation of the size estimation.
CredentialFailure ==
    /\ finished.pc = "done"
    /\ finished.caught.msg = "KEY_NOT_FOUND"
    /\ finished.inv.op = "estimate"
    /\ NotFoundSignal(finished.inv.outs[1])

\* C11 as stated: an attempt that fails with the credential error on the size
\* estimation has made exactly one backend call and ends Failed with hasKey false;
\* while hasKey is false no attempt starts, and hasKey leaves false only in the step
\* in which openSelectKey completes.
C11_ReauthBeforeRetry ==
    /\ [](CredentialFailure =>
            /\ finished.outcome = "error"
            /\ finished.inv.calls = 1 /\ finished.inv.slept = <<>>
            /\ hasKey = "false"
            /\ ~state.isLoading
            /\ state.error = "Bitte waehle deinen API Key erneut aus.")
    /\ [][hasKey = "false" =>
            /\ ~Starts
            /\ hasKey' # "false" => keyDialog /\ ~keyDialog'
         ]_vars

\* C12: the step in which an attempt ends on a composite response with finishReason
\* SAFETY publishes the content-rejected message and nothing else: the result image is
\* left as it was, the rejected invocation is the last one of its run, and it is the
\* only one when the composite call was not rate-limited before.
SafetyMessage ==
    IF variant = "gated"
    THEN "Das Bild wurde aus Sicherheitsgruenden blockiert. Bitte trage auf deinem Foto neutrale Kleidung."
    ELSE "Bild blockiert. Bitte waehle ein Foto mit neutraler Kleidung."

Terminal ==
    /\ step = 3 /\ ~state.isLoading
    /\ state.resultImage # Null \/ state.error # Null

\* What Idle looks like to the App.
IdleView ==
    [state |-> [userImage |-> "null", selectedProduct |-> "null", resultImage |-> "null",
                recommendedSize |-> "null", isLoading |-> FALSE, error |-> "null"],
     loadingStep |-> "", step |-> 1]

\* C13: reset in a terminal state leaves the App Idle, at step 1 and not loading, with
\* userImage, selectedProduct, resultImage, recommendedSize and error cleared; and in
\* every state reset applied twice gives what reset applied once gives.
C13_ResetToIdle ==
    /\ [][(Terminal /\ Reset) =>
            [state |-> state', loadingStep |-> loadingStep', step |-> step'] = IdleView
         ]_vars
    /\ [](ResetApp(AppView) = IdleView /\ ResetApp(ResetApp(AppView)) = ResetApp(AppView))

\* reset has acted on a Failed state: in the gated App hasKey is true while the
\* initial key check is pending only after a credential failure and a key selection,
\* which leave an error, a user image and a product that only reset clears.
C13_Witness ==
    /\ variant = "gated" /\ keyCheck = "pending" /\ hasKey = "true"
    /\ AppView = IdleView
    /\ InFlight = {}

\* C14: a failure of any stage ends the attempt in the step in which it is thrown, with
\* isLoading false and an error set, so no thrown failure is left unhandled; and when
\* every pending call and timer eventually completes, every attempt in flight
\* eventually ends and the App does not stay loading.
C14_EveryAttemptEnds ==
    /\ [][\A i \in Slots :
            /\ attempts'[i].inv.phase # "threw"
            /\ (Ends(i) /\ finished'.outcome = "error") =>
                    ~state'.isLoading /\ state'.error \notin {Null, ""}
         ]_vars
    /\ \A i \in 1..MaxAttempts : (attempts[i].pc # "idle") ~> (attempts[i].pc = "idle")
    /\ state.isLoading ~> ~state.isLoading

\* The fetch of the product image failed and the attempt ended Failed.
C14_Witness ==
    /\ finished.pc = "done" /\ finished.outcome = "error"
    /\ finished.caught.msg = "Produktbild Fehler"
    /\ finished.productBase64 = Null
    /\ ~state.isLoading /\ state.error = "Produktbild Fehler"

\* A failure that the Invoker of the running variant classifies as retryable.
ThrottlingSignal(e) == RateLimitSignal(e) \/ (variant = "free" /\ QuotaSignal(e))

ServerBusyMessage ==
    IF variant = "gated" THEN "Die KI ist gerade ausgelastet. Bitte warte einen Moment."
    ELSE "Server ausgelastet. Bitte kurz warten."

\* C15 as stated: an attempt that ends on a throttling failure has used up the retry
\* budget of the failing call (3 invocations, 2 waits) and shows the server-busy
\* message, not the message of the backend.
C15_ThrottlingShownAsBusy ==
    (finished.pc = "done" /\ finished.outcome = "error" /\ ThrottlingSignal(finished.caught)) =>
        /\ finished.inv.calls = 3 /\ Len(finished.inv.slept) = 2
        /\ state.error = ServerBusyMessage

\* C16: every backend call of the size estimation and of the composite, the retries
\* of the Invoker included, is issued with the credential that the environment holds
\* in the step that issues it, whatever the earlier calls of the run were issued with.
C16_FreshCredentialPerCall ==
    [][\A i \in Slots :
          (attempts[i].inv.phase = "opt" /\ attempts'[i].inv.phase = "backend") =>
              /\ attempts'[i].inv.op \in {"estimate", "compose"}
              /\ attempts'[i].inv.key = apiKey
              /\ attempts'[i].inv.keys = Append(attempts[i].inv.keys, apiKey)
              /\ Len(attempts'[i].inv.keys) = attempts'[i].inv.calls
      ]_vars

\* The credential changed between two invocations of one run: the retry was issued
\* with the new value, the first invocation with the old one.
C16_Witness ==
    \E i \in InFlight :
        /\ attempts[i].inv.phase = "backend"
        /\ attempts[i].inv.keys = <<"k1", "k2">>
        /\ attempts[i].inv.key = "k2"

\* C17 as stated: in every state in which error holds the failure of an attempt (any
\* error but that of reading the uploaded file), resultImage and recommendedSize are
\* both unset.
C17_NoResultWithError ==
    state.error \notin {"null", "Fehler beim Lesen der Bilddatei."} =>
        state.resultImage = "null" /\ state.recommendedSize = "null"

\* C18 as stated: whatever the user does and whenever the pending calls complete, at
\* most one invocation of handleTryOn is in flight.
C18_AtMostOneInFlight == Cardinality({i \in Slots : attempts[i].pc # "idle"}) <= 1

----------------------------------------------------------------------------
(* Properties of image normalization *)

Larger(a, b) == IF a > b THEN a ELSE b

\* out is edge scaled by bound / longer, to the whole pixel: at most the exact value
\* and less than one pixel-and-rounding below it.
ScaledBy(out, edge, bound, longer) ==
    /\ out * longer <= edge * bound
    /\ edge * bound - out * longer <= longer

\* C19: for a source that loads, of width w and height h, and a bound B, the canvas
\* that optimizeImage resolves with has its longer edge at most B; it has the
\* dimensions of the source when max(w, h) <= B; otherwise its longer edge is B and
\* its other edge is the other edge of the source scaled by the same factor, in whole
\* pixels.
C19_LongerEdgeBounded ==
    probe.out.kind = "resolved" =>
        LET w == probe.src.width
            h == probe.src.height
            B == probe.maxWidth
            ow == probe.out.width
            oh == probe.out.height
        IN /\ probe.src.loads
           /\ Larger(ow, oh) <= B
           /\ Larger(w, h) <= B => (ow = w /\ oh = h)
           /\ Larger(w, h) > B =>
                /\ Larger(ow, oh) = B
                /\ IF w > h THEN ow = B /\ ScaledBy(oh, h, B, w)
                            ELSE oh = B /\ ScaledBy(ow, w, B, h)

\* A 6 x 3 source was normalized to the bound 4: the canvas is 4 x 2.
C19_Witness ==
    /\ probe.src = [loads |-> TRUE, width |-> 6, height |-> 3]
    /\ probe.maxWidth = 4
    /\ probe.out = [kind |-> "resolved", width |-> 4, height |-> 2, err |-> ""]

\* C20 as stated: for a source that does not load or that has a zero dimension,
\* optimizeImage, given a canvas context, rejects with the decode error and resolves
\* with nothing.
C20_BadSourceRejected ==
    (probe.out.kind # "none" /\ probe.ctx
        /\ (~probe.src.loads \/ probe.src.width = 0 \/ probe.src.height = 0)) =>
            /\ probe.out.kind = "rejected"
            /\ probe.out.err = "Bild konnte nicht verarbeitet werden."

----------------------------------------------------------------------------
(* Properties of response inspection *)

\* The parts of the inspected response that carry image data.
Carrying == {k \in 1..Len(probe.resp.parts) :
                probe.resp.parts[k].inline /\ probe.resp.parts[k].data # ""}

NoImageMessage ==
    IF variant = "gated"
    THEN "KI konnte kein Bild generieren. Bitte versuche es mit einem deutlicheren Foto."
    ELSE "KI-Fehler. Bitte versuche es mit einem Ganzkoerperfoto."

\* C21 as stated: a response whose finish reason is SAFETY fails with the
\* content-rejected message whatever its parts; any other response yields the data of
\* its first part that carries image data, as a data URI; and a response with no such
\* part fails with the no-image message.
C21_FirstImagePart ==
    probe.out # NotInspected =>
        IF probe.resp.finish = "SAFETY"
        THEN ~probe.out.ok /\ probe.out.err.msg = SafetyMessage
        ELSE IF Carrying # {}
        THEN \E k \in Carrying :
                /\ \A j \in Carrying : k <= j
                /\ probe.out.ok
                /\ probe.out.value = "data:image/jpeg;base64," \o probe.resp.parts[k].data
        ELSE ~probe.out.ok /\ probe.out.err.msg = NoImageMessage

----------------------------------------------------------------------------
(* Properties of the product image *)

\* The invocations of handleTryOn that are suspended or have just ended.
Attempted == {attempts[i] : i \in InFlight} \cup
             (IF finished.pc = "done" THEN {finished} ELSE {})

\* C22: a product whose locator starts with "data:" never waits on the proxy and its
\* locator is the product image as it is; the image of any other product is what the
\* proxy delivered, and nothing before the proxy has answered.
C22_DataLocatorPassesThrough ==
    \A a \in Attempted :
        /\ a.product = "setData" =>
              /\ a.pc # "fetch"
              /\ a.productBase64 = "setData"
              /\ a.caught.msg # "Produktbild Fehler"
        /\ a.product = "setUrl" =>
              \/ a.productBase64 = "jpeg:setUrl"
              \/ /\ a.productBase64 = Null
                 /\ \/ a.pc = "fetch"
                    \/ a.pc = "done" /\ a.caught.msg = "Produktbild Fehler"

\* A data: product in the size estimation, its locator passed on as it is.
C22_Witness ==
    /\ \E i \in InFlight :
          /\ attempts[i].product = "setData"
          /\ attempts[i].pc = "estimate"
          /\ attempts[i].productBase64 = "setData"
    /\ state.selectedProduct = "setData"

----------------------------------------------------------------------------
(* Properties of retries *)

\* C23: nothing of a failed invocation or a failed attempt is used again. A retry of
\* the invoker starts the wrapped operation from its image normalization, and a
\* backend call is issued only out of a normalization of the same invocation. An
\* attempt that starts, after a failed one as well, holds no size, has not paced, and
\* holds no product image but the data: locator of its own product, its size
\* estimation at its first invocation; an attempt gets past the size estimation only
\* when a backend call of its own size estimation answers.
C23_NothingReused ==
    [][\A i \in Slots :
          LET a == attempts[i]
              b == attempts'[i]
          IN /\ (a.inv.phase = "sleep" /\ b.inv # a.inv) =>
                   /\ b.pc = a.pc
                   /\ b.inv.phase = "opt"
                   /\ b.inv.calls = a.inv.calls + 1
             /\ (b.inv.phase = "backend" /\ a.inv.phase # "backend") =>
                   /\ a.inv.phase = "opt"
                   /\ a.inv.calls = b.inv.calls
                   /\ Len(b.inv.keys) = b.inv.calls
             /\ (a.pc = "idle" /\ b.pc # "idle") =>
                   /\ b.size = Null
                   /\ ~b.paced
                   /\ \/ /\ b.pc = "fetch"
                         /\ b.productBase64 = Null
                         /\ b.inv.op = "none"
                      \/ /\ b.pc = "estimate"
                         /\ b.product = "setData"
                         /\ b.productBase64 = "setData"
                         /\ b.inv.op = "estimate"
                         /\ b.inv.phase = "opt"
                         /\ b.inv.calls = 1
                         /\ b.inv.keys = <<>>
             /\ (b.pc \in {"pace", "compose"} /\ a.pc \notin {"pace", "compose"}) =>
                   /\ a.pc = "estimate"
                   /\ a.inv.phase = "backend"
                   /\ a.productBase64 # Null
    ]_vars

\* An attempt started after a credential failure (the initial check still pending, so
\* hasKey was set false by a failed attempt and true by the selection that followed),
\* its size estimation normalizing the image again for a second invocation.
C23_Witness ==
    /\ variant = "gated" /\ keyCheck = "pending" /\ hasKey = "true"
    /\ \E i \in InFlight :
          /\ attempts[i].inv.op = "estimate"
          /\ attempts[i].inv.phase = "opt"
          /\ attempts[i].inv.calls = 2
          /\ attempts[i].size = Null

----------------------------------------------------------------------------
(* Properties of the request of an attempt *)

\* C24: an attempt works on the user image and the product that the App held when it
\* started, whatever the App holds later. What it captured does not change while it
\* is in flight, its product image is the one of its own product and does not change
\* once fetched, and its normalizations decode the captured user image: they pass on
\* to the backend call for "imgA" and fail for "imgBad".
C24_RequestReadOnly ==
    [][\A i \in Slots :
          LET a == attempts[i]
              b == attempts'[i]
          IN /\ (a.pc = "idle" /\ b.pc # "idle") =>
                   /\ b.userImage = state.userImage
                   /\ b.product = state.selectedProduct
             /\ (a.pc # "idle" /\ b.pc # "idle") =>
                   /\ b.userImage = a.userImage
                   /\ b.product = a.product
                   /\ a.productBase64 # Null => b.productBase64 = a.productBase64
                   /\ b.productBase64 # Null =>
                         b.productBase64 \in {b.product, "jpeg:" \o b.product}
             /\ (a.inv.phase = "opt" /\ b # a /\ a.userImage = "imgA") =>
                   /\ b.inv.phase = "backend"
                   /\ b.userImage = "imgA"
             /\ (a.inv.phase = "opt" /\ b # a /\ a.userImage = "imgBad") =>
                   /\ b.pc = "idle"
                   /\ finished'.userImage = "imgBad"
                   /\ finished'.product = a.product
                   /\ finished'.caught.msg = "Bild konnte nicht verarbeitet werden."
    ]_vars

\* An attempt on an image that does not decode failed on it after the user had reset
\* the App, selected the other product and uploaded a good image.
C24_Witness ==
    /\ finished.pc = "done"
    /\ finished.userImage = "imgBad"
    /\ finished.caught.msg = "Bild konnte nicht verarbeitet werden."
    /\ state.userImage = "imgA"
    /\ state.selectedProduct \notin {Null, finished.product}

----------------------------------------------------------------------------
(* Properties of reset during an attempt *)

\* An attempt the user has reset away: it is in flight while the App shows another
\* step than the loading screen, which only reset brings about.
Abandoned(i) == attempts[i].pc # "idle" /\ step # 3

\* C25 as stated: the step in which an abandoned attempt ends leaves resultImage,
\* recommendedSize, error and isLoading as they are.
C25_AbandonedOutcomeDiscarded ==
    [][\A i \in Slots : (Abandoned(i) /\ Ends(i)) =>
          /\ state'.resultImage = state.resultImage
          /\ state'.recommendedSize = state.recommendedSize
          /\ state'.error = state.error
          /\ state'.isLoading = state.isLoading
    ]_vars

\* C26 as stated: isLoading is true exactly when an invocation of handleTryOn is in
\* flight.
C26_LoadingIffInFlight == state.isLoading <=> InFlight # {}

----------------------------------------------------------------------------
(* Properties of size parsing on exact codes *)

\* C27 as stated: a response text that is, apart from letter case and surrounding
\* blanks, exactly one of the six size codes is parsed to that code.
C27_ExactCodeIsItself ==
    (probe.size # Null /\ probe.text # Undef) =>
        \A k \in 1..6 :
            ToUpperCase(Trim(probe.text)) = CharsOf(validSizes[k]) =>
                probe.size = validSizes[k]

----------------------------------------------------------------------------
(* Properties of the budget of an attempt *)

\* The place of a stage in the sequence of handleTryOn.
StageRank(pc) ==
    CASE pc = "fetch" -> 1
      [] pc = "estimate" -> 2
      [] pc = "pace" -> 3
      [] pc = "compose" -> 4
      [] OTHER -> 0

\* C28: an attempt runs each operation once, each within its own budget. A backend
\* call of the size estimation is at most the third of its run and is issued before
\* the pacing timer has fired, hence before any composite call; a backend call of the
\* composite is at most the third of its run. A run of the size estimation starts only
\* out of the product fetch and a run of the composite only out of the pacing timer,
\* the product fetch is entered only by the start of the attempt, and an attempt never
\* goes back to an earlier stage.
C28_BudgetPerOperation ==
    [][\A i \in Slots :
          LET a == attempts[i]
              b == attempts'[i]
          IN /\ (b.inv.phase = "backend" /\ a.inv.phase # "backend") =>
                   /\ Len(b.inv.keys) = Len(a.inv.keys) + 1
                   /\ Len(b.inv.keys) <= 3
                   /\ b.inv.op = "estimate" =>
                         b.pc = "estimate" /\ ~b.paced /\ b.size = Null
                   /\ b.inv.op = "compose" => b.pc = "compose" /\ b.paced
             /\ (b.inv.op = "estimate" /\ b.inv.calls = 1 /\ a.inv # b.inv
                    /\ a.inv.calls # 1) =>
                   /\ a.inv.op = "none"
                   /\ a.pc \in {"idle", "fetch"}
             /\ (b.inv.op = "compose" /\ a.inv.op # "compose") =>
                   /\ a.pc = "pace"
                   /\ a.inv.op = "estimate"
                   /\ a.inv.phase = "returned"
                   /\ b.inv.calls = 1
                   /\ b.inv.keys = <<>>
             /\ (b.pc = "fetch" /\ a.pc # "fetch") => a.pc = "idle"
             /\ (a.pc # "idle" /\ b.pc # "idle") => StageRank(b.pc) >= StageRank(a.pc)
    ]_vars

\* The composite of an attempt is at the third backend call of its run, the size
\* estimation of the attempt having returned before.
C28_Witness ==
    \E i \in InFlight :
        /\ attempts[i].pc = "compose"
        /\ attempts[i].inv.phase = "backend"
        /\ Len(attempts[i].inv.keys) = 3
        /\ attempts[i].size # Null
        /\ attempts[i].paced

----------------------------------------------------------------------------
(* Properties of the credential gate *)

\* C29 as stated: in the gated App an attempt starts only with hasKey true, and the
\* initial check, when it completes after the user has selected a key (hasKey is true
\* while the check is pending), leaves hasKey true.
C29_NoStartWithoutKey ==
    /\ [][(variant = "gated" /\ Starts) => hasKey = "true"]_vars
    /\ [][(keyCheck = "pending" /\ keyCheck' = "done" /\ hasKey = "true") =>
             hasKey' = "true"]_vars

----------------------------------------------------------------------------
(* Properties of the credential check in retries *)

\* C30: in the gated variant a failure with the entity-not-found signal that follows
\* failures with a rate-limit signal ends the run at that invocation: nothing is
\* invoked after it, no delay is added to those of the rate-limited tries, and the
\* run raises KEY_NOT_FOUND.
C30_CredentialCheckAtEveryDepth ==
    variant = "gated" =>
        \A r \in Runs :
            \A k \in 2..Len(r.outs) :
                (/\ NotFoundSignal(r.outs[k])
                 /\ \A j \in 1..(k - 1) : RateLimitSignal(r.outs[j])) =>
                    /\ Len(r.outs) = k
                    /\ r.calls = k
                    /\ r.phase = "threw"
                    /\ r.raised = [msg |-> "KEY_NOT_FOUND", status |-> 0]
                    /\ r.slept = SubSeq(<<2000, 4000>>, 1, k - 1)

\* A gated run was rate-limited twice and ended on its third invocation with
\* KEY_NOT_FOUND.
C30_Witness ==
    /\ variant = "gated"
    /\ finished.pc = "done"
    /\ Len(finished.inv.outs) = 3
    /\ RateLimitSignal(finished.inv.outs[1])
    /\ RateLimitSignal(finished.inv.outs[2])
    /\ NotFoundSignal(finished.inv.outs[3])
    /\ finished.inv.raised.msg = "KEY_NOT_FOUND"
    /\ finished.inv.slept = <<2000, 4000>>
    /\ hasKey = "false"

====
